---- MODULE Spec2Model ----
(***************************************************************************)
(* PageRank (src/pagerank.py): read_graph, compute_transition,            *)
(* make_one_move, random_surfer, markov_mixing and the __main__ driver.    *)
(*                                                                         *)
(* A Python float is modelled as a pair <<x, f>>.  f is the float itself,  *)
(* an IEEE-754 double <<m, e>> of value m * 2^e, m a natural of exactly 53 *)
(* bits held as a little-endian sequence of 15-bit limbs (zero is          *)
(* <<<<>>, 0>>); every operation on f rounds to nearest, ties to even, as  *)
(* the float operation of the code does.  x is the value the same          *)
(* expression has in exact arithmetic, a rational <<numerator,             *)
(* denominator>> in lowest terms; it is not held by the program and is     *)
(* what the properties stated in exact arithmetic are about.  Lists        *)
(* indexed from 0 are functions over 0..n-1.                               *)
(***************************************************************************)
EXTENDS Integers, Sequences, FiniteSets

VARIABLES
    pc,                 \* position in the program
    n,                  \* number of nodes
    input,              \* the tokens read from the file (f.read().strip().split())
    tokens,             \* the tokens not yet popped
    counts,             \* matrix of link counts
    out_degree,         \* out-degree of each node
    transition_matrix,  \* the transition matrix
    mode,               \* sys.argv[1]: "-r" or "-m" ("" before it is used)
    num_steps,          \* int(sys.argv[3])
    t,                  \* loop variable of the step loop
    page,               \* random_surfer: current page
    from_page,          \* make_one_move: the page argument of the last call
    r,                  \* make_one_move: the draw of the last call
    times_visited,      \* random_surfer: visit tally
    rank,               \* the rank vector (markov_mixing: rank; random_surfer: the values v)
    output,             \* the printed values, in thousandths ("{:.3f}")
    err                 \* the exception that ended the program, or "none"

vars == <<pc, n, input, tokens, counts, out_degree, transition_matrix, mode,
          num_steps, t, page, from_page, r, times_visited, rank, output, err>>

(***************************************************************************)
(* Bounds of the model.                                                    *)
(***************************************************************************)
MaxN == 3        \* nodes of a graph file
MaxTokens == 6   \* tokens after the first line of a graph file
MaxSteps == 2    \* number of steps
DrawDen == 4     \* draws: the largest one, and k/DrawDen cut to a multiple of 2^-53, 0 <= k < DrawDen
FnN == 2         \* size of a matrix handed directly to random_surfer / markov_mixing
CtN == 1         \* size of a counts matrix handed directly to compute_transition
MaxCount == 13   \* largest count and out-degree handed directly to compute_transition

(***************************************************************************)
(* Exact rational arithmetic: the x of a number.                           *)
(***************************************************************************)
Abs(x) == IF x < 0 THEN -x ELSE x

RECURSIVE GCD(_, _)
GCD(a, b) == IF b = 0 THEN a ELSE GCD(b, a % b)

Rat(p, q) ==
    LET g == GCD(Abs(p), Abs(q))
        s == IF q < 0 THEN -1 ELSE 1
    IN  <<(s * p) \div g, (s * q) \div g>>

FromInt(k) == <<k, 1>>

RatAdd(a, b) ==
    LET g == GCD(a[2], b[2])
        l == (a[2] \div g) * b[2]
    IN  Rat(a[1] * (l \div a[2]) + b[1] * (l \div b[2]), l)

RatMul(a, b) ==
    LET g1 == GCD(Abs(a[1]), b[2])
        g2 == GCD(Abs(b[1]), a[2])
    IN  Rat((a[1] \div g1) * (b[1] \div g2), (a[2] \div g2) * (b[2] \div g1))

RatDiv(a, b) == RatMul(a, Rat(b[2], b[1]))

RatGeq(a, b) == a[1] * b[2] >= b[1] * a[2]

RatLt(a, b) == a[1] * b[2] < b[1] * a[2]

Zero == FromInt(0)
One == FromInt(1)

\* sum of f[0] + ... + f[k-1], left to right
RECURSIVE RatSum(_, _)
RatSum(f, k) == IF k = 0 THEN Zero ELSE RatAdd(RatSum(f, k - 1), f[k - 1])

RECURSIVE IntSum(_, _)
IntSum(f, k) == IF k = 0 THEN 0 ELSE IntSum(f, k - 1) + f[k - 1]

(***************************************************************************)
(* Naturals of any size: little-endian sequences of limbs below Base, with *)
(* no zero limb at the high end (0 is <<>>).                               *)
(***************************************************************************)
LimbBits == 15
Base == 32768       \* 2^LimbBits
MantBits == 53      \* bits of the significand of a double

Limb(a, i) == IF i <= Len(a) THEN a[i] ELSE 0

RECURSIVE Trim(_)
Trim(a) == IF Len(a) > 0 /\ a[Len(a)] = 0 THEN Trim(SubSeq(a, 1, Len(a) - 1)) ELSE a

RECURSIVE BigOf(_)
BigOf(k) == IF k = 0 THEN <<>> ELSE <<k % Base>> \o BigOf(k \div Base)

RECURSIVE BigToInt(_)
BigToInt(a) == IF a = <<>> THEN 0 ELSE a[1] + Base * BigToInt(Tail(a))

RECURSIVE AddFrom(_, _, _, _)
AddFrom(a, b, i, c) ==
    IF i > Len(a) /\ i > Len(b)
    THEN BigOf(c)
    ELSE LET s == Limb(a, i) + Limb(b, i) + c
         IN  <<s % Base>> \o AddFrom(a, b, i + 1, s \div Base)

BigAdd(a, b) == Trim(AddFrom(a, b, 1, 0))

\* a * k for a limb-sized k
RECURSIVE MulFrom(_, _, _, _)
MulFrom(a, k, i, c) ==
    IF i > Len(a)
    THEN BigOf(c)
    ELSE LET s == a[i] * k + c
         IN  <<s % Base>> \o MulFrom(a, k, i + 1, s \div Base)

BigMulSmall(a, k) == Trim(MulFrom(a, k, 1, 0))

RECURSIVE MulAcc(_, _, _)
MulAcc(a, b, i) ==
    IF i > Len(b)
    THEN <<>>
    ELSE AddFrom(MulFrom(a, b[i], 1, 0), <<0>> \o MulAcc(a, b, i + 1), 1, 0)

BigMul(a, b) == Trim(MulAcc(a, b, 1))

\* <<quotient, remainder>> of limbs i.. of a by a limb-sized d
RECURSIVE DivFrom(_, _, _)
DivFrom(a, d, i) ==
    IF i > Len(a)
    THEN <<<<>>, 0>>
    ELSE LET h == DivFrom(a, d, i + 1)
             cur == h[2] * Base + a[i]
         IN  <<<<cur \div d>> \o h[1], cur % d>>

BigDivSmall(a, d) == LET h == DivFrom(a, d, 1) IN <<Trim(h[1]), h[2]>>

\* a * 2^s
BigShl(a, s) ==
    IF a = <<>>
    THEN <<>>
    ELSE [i \in 1 .. (s \div LimbBits) |-> 0] \o BigMulSmall(a, 2 ^ (s % LimbBits))

\* floor(a / 2^s)
BigShr(a, s) ==
    LET k == s \div LimbBits
        high == IF k >= Len(a) THEN <<>> ELSE SubSeq(a, k + 1, Len(a))
    IN  BigDivSmall(high, 2 ^ (s % LimbBits))[1]

RECURSIVE BitsOf(_)
BitsOf(k) == IF k = 0 THEN 0 ELSE 1 + BitsOf(k \div 2)

BitLen(a) == IF a = <<>> THEN 0 ELSE LimbBits * (Len(a) - 1) + BitsOf(a[Len(a)])

RECURSIVE CmpFrom(_, _, _)
CmpFrom(a, b, i) ==
    IF i = 0 THEN 0
    ELSE IF a[i] > b[i] THEN 1
    ELSE IF a[i] < b[i] THEN -1
    ELSE CmpFrom(a, b, i - 1)

\* -1, 0 or 1 as a < b, a = b or a > b
BigCmp(a, b) ==
    IF Len(a) > Len(b) THEN 1
    ELSE IF Len(a) < Len(b) THEN -1
    ELSE CmpFrom(a, b, Len(a))

IsOdd(a) == a # <<>> /\ a[1] % 2 = 1

\* a / 2^s rounded to the nearest integer, ties to even; above says that the value
\* to round is not a itself but lies strictly between a and a + 1
RoundShr(a, s, above) ==
    LET q == BigShr(a, s)
        mid == BigShl(BigAdd(BigMulSmall(q, 2), <<1>>), s - 1)
        c == BigCmp(a, mid)
        up == c > 0 \/ (c = 0 /\ (above \/ IsOdd(q)))
    IN  IF up THEN BigAdd(q, <<1>>) ELSE q

(***************************************************************************)
(* IEEE-754 doubles (binary64, round to nearest, ties to even; no value of *)
(* the program is subnormal, infinite or negative).                        *)
(***************************************************************************)
FlZero == <<<<>>, 0>>

\* the double nearest to a * 2^e (to a value strictly between a * 2^e and
\* (a + 1) * 2^e when above holds, a then having more than 53 bits)
Round(a, e, above) ==
    IF a = <<>>
    THEN FlZero
    ELSE LET len == BitLen(a)
         IN  IF len <= MantBits
             THEN <<BigShl(a, MantBits - len), e - (MantBits - len)>>
             ELSE LET s == len - MantBits
                      m == RoundShr(a, s, above)
                  IN  IF BitLen(m) > MantBits
                      THEN <<BigShr(m, 1), e + s + 1>>
                      ELSE <<m, e + s>>

\* float(k) for an int k >= 0
FlInt(k) == Round(BigOf(k), 0, FALSE)

\* a + b
FlAdd(a, b) ==
    IF a[1] = <<>> THEN b
    ELSE IF b[1] = <<>> THEN a
    ELSE LET e == IF a[2] < b[2] THEN a[2] ELSE b[2]
         IN  Round(BigAdd(BigShl(a[1], a[2] - e), BigShl(b[1], b[2] - e)), e, FALSE)

\* a * b
FlMul(a, b) ==
    IF a[1] = <<>> \/ b[1] = <<>>
    THEN FlZero
    ELSE Round(BigMul(a[1], b[1]), a[2] + b[2], FALSE)

\* a / d for an int d > 0 (an int divisor is converted to float exactly)
FlDivInt(a, d) ==
    IF a[1] = <<>>
    THEN FlZero
    ELSE LET h == BigDivSmall(BigShl(a[1], LimbBits + 2), d)
         IN  Round(h[1], a[2] - (LimbBits + 2), h[2] # 0)

\* a >= b
FlGeq(a, b) ==
    IF b[1] = <<>> THEN TRUE
    ELSE IF a[1] = <<>> THEN FALSE
    ELSE a[2] > b[2] \/ (a[2] = b[2] /\ BigCmp(a[1], b[1]) >= 0)

FlLt(a, b) == ~FlGeq(a, b)

(***************************************************************************)
(* Numbers <<x, f>>: a float f and the exact value x of its expression.    *)
(***************************************************************************)
\* an int used in a float expression
NumInt(k) == <<FromInt(k), FlInt(k)>>

\* the float literal p/q written in decimal (0.9 is NumLit(9, 10))
NumLit(p, q) == <<Rat(p, q), FlDivInt(FlInt(p), q)>>

NumAdd(a, b) == <<RatAdd(a[1], b[1]), FlAdd(a[2], b[2])>>

NumMul(a, b) == <<RatMul(a[1], b[1]), FlMul(a[2], b[2])>>

\* a / d for an int d # 0
NumDiv(a, d) == <<RatDiv(a[1], FromInt(d)), FlDivInt(a[2], d)>>

\* the exact values and the floats of a list of numbers
Exact(v) == [i \in DOMAIN v |-> v[i][1]]
Floats(v) == [i \in DOMAIN v |-> v[i][2]]

\* the float sum f[0] + ... + f[k-1], left to right from 0
RECURSIVE FlSum(_, _)
FlSum(f, k) == IF k = 0 THEN FlZero ELSE FlAdd(FlSum(f, k - 1), f[k - 1])

Nodes(m) == 0 .. (m - 1)

ZeroVector(m) == [i \in Nodes(m) |-> 0]
ZeroMatrix(m) == [i \in Nodes(m) |-> [j \in Nodes(m) |-> 0]]

None == -1
IndexError == -2    \* stands for the IndexError of transition_matrix[page][j]
NoValue == <<>>

Size(f) == Cardinality(DOMAIN f)

(***************************************************************************)
(* read_graph: the token sequences a file of n nodes can hold.             *)
(***************************************************************************)
TokenLists(m) == UNION {[1 .. k -> Nodes(m)] : k \in 0 .. MaxTokens}

\* tokens.pop(0) twice: what is left of the token list
Rest(tk) == SubSeq(tk, 3, Len(tk))

\* variant of BumpDegree: the out-degree of the link's target is raised
BumpDegreeTarget(od, u, v) == [od EXCEPT ![v] = @ + 1]

\* out_degree[u] += 1
BumpDegree(od, u, v) == [od EXCEPT ![u] = @ + 1]

\* counts[u][v] += 1
BumpCount(c, u, v) == [c EXCEPT ![u][v] = @ + 1]

(***************************************************************************)
(* compute_transition                                                      *)
(***************************************************************************)
Damping == NumLit(9, 10)    \* 0.9
Teleport == NumLit(1, 10)   \* 0.1

\* variant of TransitionEntry: the teleport term is not divided by n
TransitionEntryWholeTeleport(c, od, i, j) ==
    NumAdd(NumDiv(NumMul(Damping, NumInt(c[i][j])), od[i]),
           NumMul(Teleport, NumInt(1)))

\* (0.9 * counts[i][j]/out_degree[i]) + (0.1 * 1/n)
TransitionEntry(c, od, i, j) ==
    NumAdd(NumDiv(NumMul(Damping, NumInt(c[i][j])), od[i]),
           NumDiv(NumMul(Teleport, NumInt(1)), Size(od)))

compute_transition(c, od) ==
    [i \in Nodes(Size(od)) |-> [j \in Nodes(Size(od)) |-> TransitionEntry(c, od, i, j)]]

\* the division of line 90 by an out_degree of 0
DividesByZero(od) == \E i \in DOMAIN od : od[i] = 0

(***************************************************************************)
(* make_one_move                                                           *)
(***************************************************************************)
\* random.uniform(0.0, 1.0) is 0.0 + 1.0 * random.random(), a multiple of 2^-53 below 1
DrawAt(k) == Round(BigDivSmall(BigShl(BigOf(k), MantBits), DrawDen)[1], -MantBits, FALSE)

\* the largest draw, 1 - 2^-53
LargestDraw ==
    <<[i \in 1 .. (MantBits \div LimbBits) |-> Base - 1] \o <<2 ^ (MantBits % LimbBits) - 1>>,
      -MantBits>>

Draws == {DrawAt(k) : k \in 0 .. (DrawDen - 1)} \cup {LargestDraw}

\* variant of Scan: the comparison is psum > r
RECURSIVE ScanStrict(_, _, _, _, _)
ScanStrict(row, m, draw, j, psum) ==
    IF j = m
    THEN None
    ELSE IF j \notin DOMAIN row
    THEN IndexError
    ELSE LET s == FlAdd(psum, row[j][2])
         IN  IF FlGeq(s, draw) /\ s # draw THEN j ELSE ScanStrict(row, m, draw, j + 1, s)

\* the loop of make_one_move over range(m) from column j on, with running sum psum:
\* the column it returns (None when the loop ends without a return)
RECURSIVE Scan(_, _, _, _, _)
Scan(row, m, draw, j, psum) ==
    IF j = m
    THEN None
    ELSE IF j \notin DOMAIN row
    THEN IndexError
    ELSE LET s == FlAdd(psum, row[j][2])
         IN  IF FlGeq(s, draw) THEN j ELSE Scan(row, m, draw, j + 1, s)

\* n = len(transition_matrix): the scan runs over as many columns as the matrix has rows
make_one_move(tm, pg, draw) == Scan(tm[pg], Size(tm), draw, 0, FlZero)

(***************************************************************************)
(* random_surfer                                                           *)
(***************************************************************************)
\* times_visited[page] += 1
Visit(tv, pg) == [tv EXCEPT ![pg] = @ + 1]

\* v = count / num_steps
Share(count, steps) == NumDiv(NumInt(count), steps)

(***************************************************************************)
(* markov_mixing                                                           *)
(***************************************************************************)
\* variant of InitialRank: the uniform distribution
InitialRankUniform(m) == [i \in Nodes(m) |-> NumDiv(NumInt(1), m)]

\* rank = [0]*n; rank[0] = 1.0
InitialRank(m) == [i \in Nodes(m) |-> IF i = 0 THEN NumInt(1) ELSE NumInt(0)]

\* variant of Accumulate: the matrix is indexed [i][j]
RECURSIVE AccumulateTransposed(_, _, _, _)
AccumulateTransposed(rk, tm, i, k) ==
    IF k = 0
    THEN NumInt(0)
    ELSE NumAdd(AccumulateTransposed(rk, tm, i, k - 1), NumMul(rk[k - 1], tm[i][k - 1]))

\* new_rank[i] after the inner loop has run over j = 0 .. k-1
RECURSIVE Accumulate(_, _, _, _)
Accumulate(rk, tm, i, k) ==
    IF k = 0
    THEN NumInt(0)
    ELSE NumAdd(Accumulate(rk, tm, i, k - 1), NumMul(rk[k - 1], tm[k - 1][i]))

\* variant of NewRank: entries 0 .. k-1 are written into rank itself, one after the other
RECURSIVE UpdateInPlace(_, _, _)
UpdateInPlace(rk, tm, k) ==
    IF k = 0
    THEN rk
    ELSE LET done == UpdateInPlace(rk, tm, k - 1)
         IN  [done EXCEPT ![k - 1] = Accumulate(done, tm, k - 1, Size(tm))]

NewRankInPlace(rk, tm) == UpdateInPlace(rk, tm, Size(tm))

\* one iteration of the outer loop: the new_rank that replaces rank
NewRank(rk, tm) == [i \in Nodes(Size(tm)) |-> Accumulate(rk, tm, i, Size(tm))]

(***************************************************************************)
(* "{:.3f}".format(x) for a float x >= 0, in thousandths: the decimal      *)
(* nearest to the value of the float, ties to even.                        *)
(***************************************************************************)
Format3(x) ==
    IF x[2][1] = <<>>
    THEN 0
    ELSE BigToInt(RoundShr(BigMulSmall(x[2][1], 1000), -x[2][2], FALSE))

\* the print loop over v: the line it prints
PrintAll(v) == [i \in DOMAIN v |-> Format3(v[i])]

(***************************************************************************)
(* The program run on a graph file: the state when read_graph has read the *)
(* first line, allocated out_degree and counts and split the rest of the   *)
(* file into tokens (lines 43-49).                                         *)
(***************************************************************************)
Init ==
    /\ n \in 1 .. MaxN
    /\ input \in TokenLists(n)
    /\ tokens = input
    /\ out_degree = ZeroVector(n)
    /\ counts = ZeroMatrix(n)
    /\ pc = "assert"
    /\ transition_matrix = NoValue
    /\ mode = ""
    /\ num_steps = 0
    /\ t = 0
    /\ page = 0
    /\ from_page = 0
    /\ r = FlZero
    /\ times_visited = NoValue
    /\ rank = NoValue
    /\ output = NoValue
    /\ err = "none"

\* assert(len(tokens) % 2 == 0)
ReadAssert ==
    /\ pc = "assert"
    /\ IF Len(tokens) % 2 = 0
       THEN pc' = "read_loop" /\ err' = err
       ELSE pc' = "error" /\ err' = "AssertionError"
    /\ UNCHANGED <<n, input, tokens, counts, out_degree, transition_matrix, mode,
                   num_steps, t, page, from_page, r, times_visited, rank, output>>

\* one iteration of the while loop of read_graph
ReadPair ==
    /\ pc = "read_loop"
    /\ Len(tokens) > 0
    /\ LET u == tokens[1]
           v == tokens[2]
       IN  /\ out_degree' = BumpDegree(out_degree, u, v)
           /\ counts' = BumpCount(counts, u, v)
    /\ tokens' = Rest(tokens)
    /\ UNCHANGED <<pc, n, input, transition_matrix, mode, num_steps, t, page,
                   from_page, r, times_visited, rank, output, err>>

\* the loop ends: f.close(); return counts, out_degree
ReadReturn ==
    /\ pc = "read_loop"
    /\ Len(tokens) = 0
    /\ pc' = "transition"
    /\ input' = <<>>
    /\ UNCHANGED <<n, tokens, counts, out_degree, transition_matrix, mode, num_steps,
                   t, page, from_page, r, times_visited, rank, output, err>>

\* transition_matrix = compute_transition(counts, out_degree)
ComputeTransition ==
    /\ pc = "transition"
    /\ IF DividesByZero(out_degree)
       THEN /\ pc' = "error"
            /\ err' = "ZeroDivisionError"
            /\ transition_matrix' = transition_matrix
       ELSE /\ pc' = "main"
            /\ err' = err
            /\ transition_matrix' = compute_transition(counts, out_degree)
    /\ UNCHANGED <<n, input, tokens, counts, out_degree, mode, num_steps, t, page,
                   from_page, r, times_visited, rank, output>>

\* num_steps = int(sys.argv[3]); random_surfer(transition_matrix, num_steps) up to the loop
CallRandomSurfer ==
    /\ pc = "main"
    /\ mode' = "-r"
    /\ num_steps' \in 0 .. MaxSteps
    /\ page' = 0
    /\ times_visited' = ZeroVector(Size(transition_matrix))
    /\ t' = 0
    /\ pc' = "surfer_loop"
    /\ UNCHANGED <<n, input, tokens, counts, out_degree, transition_matrix, from_page,
                   r, rank, output, err>>

\* one iteration of the step loop of random_surfer
SurferStep ==
    /\ pc = "surfer_loop"
    /\ t < num_steps
    /\ \E draw \in Draws :
          LET next == make_one_move(transition_matrix, page, draw)
          IN  /\ r' = draw
              /\ from_page' = page
              /\ IF next = IndexError
                 THEN /\ pc' = "error"
                      /\ err' = "IndexError"
                      /\ UNCHANGED <<page, times_visited, t>>
                 ELSE IF next = None
                 THEN /\ page' = next
                      /\ pc' = "error"
                      /\ err' = "TypeError"
                      /\ UNCHANGED <<times_visited, t>>
                 ELSE /\ page' = next
                      /\ times_visited' = Visit(times_visited, next)
                      /\ t' = t + 1
                      /\ UNCHANGED <<pc, err>>
    /\ UNCHANGED <<n, input, tokens, counts, out_degree, transition_matrix, mode,
                   num_steps, rank, output>>

\* the print loop of random_surfer
SurferPrint ==
    /\ pc = "surfer_loop"
    /\ t = num_steps
    /\ IF num_steps = 0
       THEN /\ pc' = "error"
            /\ err' = "ZeroDivisionError"
            /\ UNCHANGED <<rank, output>>
       ELSE /\ rank' = [i \in DOMAIN times_visited |-> Share(times_visited[i], num_steps)]
            /\ output' = PrintAll(rank')
            /\ pc' = "done"
            /\ err' = err
    /\ UNCHANGED <<n, input, tokens, counts, out_degree, transition_matrix, mode,
                   num_steps, t, page, from_page, r, times_visited>>

\* num_steps = int(sys.argv[3]); markov_mixing(transition_matrix, num_steps) up to the loop
CallMarkovMixing ==
    /\ pc = "main"
    /\ mode' = "-m"
    /\ num_steps' \in 0 .. MaxSteps
    /\ rank' = InitialRank(Size(transition_matrix))
    /\ t' = 0
    /\ pc' = "mixing_loop"
    /\ UNCHANGED <<n, input, tokens, counts, out_degree, transition_matrix, page,
                   from_page, r, times_visited, output, err>>

\* one iteration of the outer loop of markov_mixing
MixStep ==
    /\ pc = "mixing_loop"
    /\ t < num_steps
    /\ rank' = NewRank(rank, transition_matrix)
    /\ t' = t + 1
    /\ UNCHANGED <<pc, n, input, tokens, counts, out_degree, transition_matrix, mode,
                   num_steps, page, from_page, r, times_visited, output, err>>

\* the print loop of markov_mixing
MixPrint ==
    /\ pc = "mixing_loop"
    /\ t = num_steps
    /\ output' = PrintAll(rank)
    /\ pc' = "done"
    /\ UNCHANGED <<n, input, tokens, counts, out_degree, transition_matrix, mode,
                   num_steps, t, page, from_page, r, times_visited, rank, err>>

Next ==
    \/ ReadAssert
    \/ ReadPair
    \/ ReadReturn
    \/ ComputeTransition
    \/ CallRandomSurfer
    \/ SurferStep
    \/ SurferPrint
    \/ CallMarkovMixing
    \/ MixStep
    \/ MixPrint

Spec == Init /\ [][Next]_vars

(***************************************************************************)
(* random_surfer and markov_mixing imported and called on a matrix of the  *)
(* caller's choosing.                                                      *)
(***************************************************************************)
FnEntries == {NumLit(1, 4), NumLit(1, 2)}

FnMatrices == UNION {[Nodes(m) -> [Nodes(m) -> FnEntries]] : m \in 1 .. FnN}

InitFn ==
    /\ transition_matrix \in FnMatrices
    /\ n = Size(transition_matrix)
    /\ input = <<>>
    /\ tokens = <<>>
    /\ out_degree = NoValue
    /\ counts = NoValue
    /\ pc = "main"
    /\ mode = ""
    /\ num_steps = 0
    /\ t = 0
    /\ page = 0
    /\ from_page = 0
    /\ r = FlZero
    /\ times_visited = NoValue
    /\ rank = NoValue
    /\ output = NoValue
    /\ err = "none"

NextFn ==
    \/ CallRandomSurfer
    \/ SurferStep
    \/ SurferPrint
    \/ CallMarkovMixing
    \/ MixStep
    \/ MixPrint

SpecFn == InitFn /\ [][NextFn]_vars

(***************************************************************************)
(* compute_transition imported and called on counts and out-degrees of the *)
(* caller's choosing.                                                      *)
(***************************************************************************)
InitCt ==
    /\ n \in 1 .. CtN
    /\ counts \in [Nodes(n) -> [Nodes(n) -> 0 .. MaxCount]]
    /\ out_degree \in [Nodes(n) -> 0 .. MaxCount]
    /\ input = <<>>
    /\ tokens = <<>>
    /\ pc = "transition"
    /\ transition_matrix = NoValue
    /\ mode = ""
    /\ num_steps = 0
    /\ t = 0
    /\ page = 0
    /\ from_page = 0
    /\ r = FlZero
    /\ times_visited = NoValue
    /\ rank = NoValue
    /\ output = NoValue
    /\ err = "none"

NextCt == ComputeTransition

SpecCt == InitCt /\ [][NextCt]_vars

(***************************************************************************)
(* Properties                                                              *)
(***************************************************************************)
\* compute_transition has returned a matrix
HasMatrix == pc \in {"main", "surfer_loop", "mixing_loop", "done"} \/ (pc = "error" /\ mode # "")

\* make_one_move has been called at least once by random_surfer
Moved == mode = "-r" /\ (t > 0 \/ err = "TypeError")

\* number of (u, v) pairs read_graph has popped so far
Processed == (Len(input) - Len(tokens)) \div 2

\* how many of the pairs popped so far are (i, j)
PairsSeen(i, j) ==
    Cardinality({k \in 1 .. Processed : input[2 * k - 1] = i /\ input[2 * k] = j})

\* the teleport floor 0.1/n
Floor == NumDiv(Teleport, n)

\* C1: when every out_degree[i] >= 1 and row i of counts sums to out_degree[i] (as
\* read_graph leaves them), every row of the matrix compute_transition returns sums
\* to exactly 1 in exact arithmetic.
C1_RowsSumToOne ==
    HasMatrix =>
        \A i \in Nodes(n) :
            (out_degree[i] >= 1 /\ IntSum(counts[i], n) = out_degree[i])
                => RatSum(Exact(transition_matrix[i]), n) = One

C1_Witness ==
    /\ HasMatrix
    /\ n >= 2
    /\ \E i \in Nodes(n) :
           out_degree[i] >= 2 /\ RatSum(Exact(transition_matrix[i]), n) = One

\* C2: on a graph file that satisfies the input format (even number of tokens, u and
\* v in [0, n)) the pipeline read_graph, compute_transition, random_surfer or
\* markov_mixing with num_steps > 0 ends without an error.
C2_NoErrorOnWellFormedInput ==
    err # "none" => (err = "AssertionError" \/ (mode = "-r" /\ num_steps = 0))

\* C3: the rank vector markov_mixing holds before and after every iteration of its
\* outer loop, and the one it prints, sums to exactly 1 in exact arithmetic.
C3_RankSumsToOne ==
    mode = "-m" => RatSum(Exact(rank), n) = One

C3_Witness ==
    /\ mode = "-m"
    /\ pc = "done"
    /\ num_steps >= 2
    /\ rank # InitialRank(n)
    /\ RatSum(Exact(rank), n) = One

\* C4: for every num_steps, 0 included, random_surfer's tally sums to num_steps
\* when the step loop ends, and the rank vector count / num_steps is produced (the
\* call does not fail) and sums to 1.
C4_TallyAndRankSum ==
    mode = "-r" =>
        /\ pc # "error"
        /\ (t = num_steps => IntSum(times_visited, n) = num_steps)
        /\ (pc = "done" => RatSum(Exact(rank), n) = One)

\* C5: for non-negative counts and out-degrees >= 1, every entry of the matrix
\* compute_transition returns (the float, and its value in exact arithmetic) is at
\* least 0.1/n, so it is not zero, and at most 1.
C5_EntriesInRange ==
    HasMatrix =>
        \A i, j \in Nodes(n) :
            /\ FlGeq(transition_matrix[i][j][2], Floor[2])
            /\ transition_matrix[i][j][2] # FlZero
            /\ FlGeq(FlInt(1), transition_matrix[i][j][2])
            /\ RatGeq(transition_matrix[i][j][1], Floor[1])
            /\ RatGeq(One, transition_matrix[i][j][1])

\* C6: markov_mixing with num_steps = 0 ends with rank 1 at node 0 and 0 at every
\* other node, and prints 1.000 followed by 0.000s, whatever the matrix holds.
C6_ZeroStepsInitialDistribution ==
    (mode = "-m" /\ num_steps = 0 /\ pc = "done") =>
        \A i \in Nodes(n) :
            /\ rank[i] = (IF i = 0 THEN NumInt(1) ELSE NumInt(0))
            /\ output[i] = (IF i = 0 THEN 1000 ELSE 0)

C6_Witness ==
    /\ mode = "-m"
    /\ num_steps = 0
    /\ pc = "done"
    /\ n >= 2
    /\ transition_matrix[0] # rank
    /\ rank[0] = NumInt(1)

\* C7: in read_graph, after any number of pairs popped, row i of counts sums to
\* out_degree[i] and counts[i][j] is the number of pairs (i, j) popped so far; the
\* values returned keep the row sums equal to the out-degrees.
C7_CountsMatchOutDegree ==
    /\ \A i \in Nodes(n) : IntSum(counts[i], n) = out_degree[i]
    /\ pc \in {"assert", "read_loop"} =>
           \A i, j \in Nodes(n) : counts[i][j] = PairsSeen(i, j)

C7_Witness ==
    /\ pc = "read_loop"
    /\ tokens = <<>>
    /\ Processed = 3
    /\ \E i, j \in Nodes(n) : counts[i][j] = 2 /\ out_degree[i] = 3

\* the running sum psum of make_one_move after column k of a row
RunningSum(row, k) == FlSum(Floats(row), k + 1)

\* psum >= r after column k
Meets(row, draw, k) == FlGeq(RunningSum(row, k), draw)

\* C8: make_one_move always yields a column index in [0, n), and when the scan ends
\* with the running sum still below the draw r, the column is the last one, n - 1.
C8_FallbackLastColumn ==
    Moved =>
        /\ page \in Nodes(n)
        /\ (~Meets(transition_matrix[from_page], r, n - 1) => page = n - 1)

\* the smallest column whose running sum is >= the draw
SmallestColumn(row, draw) ==
    CHOOSE j \in DOMAIN row :
        Meets(row, draw, j) /\ \A k \in 0 .. (j - 1) : ~Meets(row, draw, k)

\* C9: on a row whose running sum reaches the draw r, make_one_move returns the
\* smallest column j at which the running sum transition_matrix[page][0] + ... +
\* transition_matrix[page][j] is >= r: the sum is >= r at j and < r at every lower
\* column, and the column is a function of the row and of r alone.
C9_SmallestColumnReachingDraw ==
    /\ [][(pc = "surfer_loop" /\ t < num_steps /\ Meets(transition_matrix[page], r', n - 1)) =>
            page' = SmallestColumn(transition_matrix[page], r')]_vars
    /\ []((Moved /\ Meets(transition_matrix[from_page], r, n - 1)) =>
            /\ page \in Nodes(n)
            /\ Meets(transition_matrix[from_page], r, page)
            /\ \A k \in 0 .. (page - 1) : ~Meets(transition_matrix[from_page], r, k))

C9_Witness ==
    /\ Moved
    /\ page >= 1
    /\ RunningSum(transition_matrix[from_page], page) = r
    /\ ~Meets(transition_matrix[from_page], r, page - 1)

\* C10: every iteration of markov_mixing replaces rank by new_rank with
\* new_rank[i] = sum over j of rank[j] * transition_matrix[j][i], all taken from the
\* rank before the iteration; the first iteration yields row 0 of the matrix, which
\* is what num_steps = 1 prints.
C10_StepIsVectorMatrixProduct ==
    /\ [][(pc = "mixing_loop" /\ t < num_steps) =>
            /\ \A i \in Nodes(n) :
                   rank'[i][1] = RatSum([j \in Nodes(n) |->
                                            RatMul(rank[j][1], transition_matrix[j][i][1])], n)
            /\ (t = 0 => rank' = transition_matrix[0])]_vars
    /\ []((mode = "-m" /\ num_steps = 1 /\ pc = "done") =>
            /\ rank = transition_matrix[0]
            /\ output = PrintAll(transition_matrix[0]))

C10_Witness ==
    /\ mode = "-m"
    /\ num_steps = 1
    /\ pc = "done"
    /\ n >= 2
    /\ rank = transition_matrix[0]
    /\ rank # InitialRank(n)
    /\ transition_matrix[1] # transition_matrix[0]

====
